---- MODULE Spec2Model ----
\* Sigmoid bonding curve (stylus/src/lib.rs): the contract's storage, its public
\* methods and its fixed-point numeric core.
\*
\* Word size.  The contract computes on U256 with SCALE_FACTOR = 10^18.  TLC's
\* integers are 32 bits wide, so the model keeps the arithmetic of the source
\* operation by operation (saturating, wrapping and truncating exactly where the
\* source is) on a word of Bits bits with SCALE_FACTOR = 10^ScaleDigits.  With
\* Bits = 28 and ScaleDigits = 2, MAX is about SCALE_FACTOR^4.2, as in the
\* source (2^256 is about (10^18)^4.28), so a*SCALE and a*SCALE*SCALE overflow at
\* the same relative magnitudes.  The defaults are written as the same multiples
\* of SCALE_FACTOR as in the source (10.0, 10.0, 0.5).
EXTENDS Integers, Sequences, FiniteSets, TLC

\* ------------------------------------------------------------------ bounds
Bits == 28
ScaleDigits == 2
NumPools == 2
NumAddresses == 2

\* ------------------------------------------------------------ word and constants
MAX == 2^Bits - 1
Modulus == 2^Bits
SCALE_FACTOR == 10^ScaleDigits
TWO == 2
THOUSAND == 1000
MILLION == 1000000
DEFAULT_MAX_PRICE_FACTOR == 10 * SCALE_FACTOR
DEFAULT_STEEPNESS == 10 * SCALE_FACTOR
DEFAULT_MIDPOINT == SCALE_FACTOR \div 2
ExpCutoff == 50
ExpTerms == 14
MaxIterations == 100
ParamWords == 5

\* ------------------------------------------------------------ U256 primitives
saturating_add(a, b) == IF a > MAX - b THEN MAX ELSE a + b

saturating_sub(a, b) == IF a < b THEN 0 ELSE a - b

saturating_mul(a, b) == IF b # 0 /\ a > MAX \div b THEN MAX ELSE a * b

wrapping_add(a, b) == (a + b) % Modulus

wrapping_sub(a, b) == (a + Modulus - b) % Modulus

\* a * b mod 2^Bits by doubling, so that no intermediate exceeds 2^(Bits+1)
RECURSIVE wrapping_mul(_, _)
wrapping_mul(a, b) ==
    IF b = 0 THEN 0
    ELSE LET rest == wrapping_mul((2 * a) % Modulus, b \div 2)
         IN  (rest + (IF b % 2 = 1 THEN a ELSE 0)) % Modulus

\* --------------------------------------------------------- fixed-point helpers
\* multiply_fixed_point without its overflow check, multiplying with the wrapping `*`
multiply_fixed_point_wrapping(a, b) ==
    IF a = 0 \/ b = 0 THEN 0
    ELSE wrapping_mul(a, b) \div SCALE_FACTOR

multiply_fixed_point(a, b) ==
    IF a = 0 \/ b = 0 THEN 0
    ELSE IF a > MAX \div b THEN MAX
    ELSE saturating_mul(a, b) \div SCALE_FACTOR

divide_fixed_point(a, b) ==
    IF b = 0 THEN 0
    ELSE IF a > MAX \div SCALE_FACTOR THEN wrapping_mul(a \div b, SCALE_FACTOR)
    ELSE saturating_mul(a, SCALE_FACTOR) \div b

\* ------------------------------------------------------------------ exp_approx
\* the body of `for i in 1..15`, from iteration i on
RECURSIVE exp_loop(_, _, _, _)
exp_loop(i, term, result, x) ==
    IF i > ExpTerms THEN result
    ELSE LET term2   == multiply_fixed_point(term, x) \div i
             result2 == saturating_add(result, term2)
         IN  IF term2 < SCALE_FACTOR \div MILLION THEN result2
             ELSE exp_loop(i + 1, term2, result2, x)

exp_approx(x) ==
    IF x = 0 THEN SCALE_FACTOR
    ELSE IF x > saturating_mul(ExpCutoff, SCALE_FACTOR) THEN MAX \div TWO
    ELSE exp_loop(1, SCALE_FACTOR, SCALE_FACTOR, x)

\* ------------------------------------------------------ calculate_sigmoid_price
CurveParameters(ip, mpf, st, mid, ts) ==
    [initial_price |-> ip, max_price_factor |-> mpf, steepness |-> st,
     midpoint |-> mid, total_supply |-> ts]

percentage_sold(supply, params) ==
    IF params.total_supply = 0 THEN SCALE_FACTOR
    ELSE divide_fixed_point(saturating_mul(supply, SCALE_FACTOR), params.total_supply)

price_range(params) ==
    saturating_sub(multiply_fixed_point(params.initial_price, params.max_price_factor),
                   params.initial_price)

sigmoid_denominator(supply, params) ==
    LET pct == percentage_sold(supply, params)
    IN  IF pct < params.midpoint
        THEN LET midpoint_diff == saturating_sub(params.midpoint, pct)
                 exponent_term == multiply_fixed_point(params.steepness, midpoint_diff)
             IN  saturating_add(SCALE_FACTOR, exp_approx(exponent_term))
        ELSE LET midpoint_diff == saturating_sub(pct, params.midpoint)
                 exponent_term == multiply_fixed_point(params.steepness, midpoint_diff)
                 exp_value     == exp_approx(exponent_term)
             IN  IF exp_value = 0 THEN saturating_mul(SCALE_FACTOR, 1000)
                 ELSE saturating_add(SCALE_FACTOR, divide_fixed_point(SCALE_FACTOR, exp_value))

\* calculate_sigmoid_price without its `supply.is_zero()` early return
calculate_sigmoid_price_no_floor(supply, params) ==
    saturating_add(params.initial_price,
                   divide_fixed_point(price_range(params),
                                      sigmoid_denominator(supply, params)))

calculate_sigmoid_price(supply, params) ==
    IF supply = 0 THEN params.initial_price
    ELSE saturating_add(params.initial_price,
                        divide_fixed_point(price_range(params),
                                           sigmoid_denominator(supply, params)))

\* ---------------------------------------------- calculate_weth_for_token_amount
calculate_weth_for_token_amount(current_supply, token_amount, params, is_selling) ==
    LET new_supply  == IF is_selling THEN saturating_sub(current_supply, token_amount)
                       ELSE saturating_add(current_supply, token_amount)
        start_price == calculate_sigmoid_price(current_supply, params)
        end_price   == calculate_sigmoid_price(new_supply, params)
        sum_prices  == saturating_add(start_price, end_price)
    IN  multiply_fixed_point(sum_prices, token_amount) \div TWO

\* ---------------------------------------------------- find_token_amount_for_weth
\* the body of `for _ in 0..100`, with n iterations left.  An iteration that leaves
\* min_tokens and max_tokens as they were is repeated unchanged by every later one,
\* and the loop then ends in `min_tokens`: the model returns it at once.
RECURSIVE bisect(_, _, _, _, _, _, _)
bisect(n, min_tokens, max_tokens, current_supply, weth_amount, params, is_selling) ==
    IF n = 0 THEN min_tokens
    ELSE IF max_tokens = min_tokens THEN min_tokens
    ELSE LET mid_tokens  == saturating_add(min_tokens,
                                saturating_sub(max_tokens, min_tokens) \div TWO)
             weth_needed == calculate_weth_for_token_amount(current_supply, mid_tokens,
                                                            params, is_selling)
             diff        == IF weth_needed >= weth_amount
                            THEN saturating_sub(weth_needed, weth_amount)
                            ELSE saturating_sub(weth_amount, weth_needed)
             new_min     == IF weth_needed < weth_amount THEN mid_tokens ELSE min_tokens
             new_max     == IF weth_needed < weth_amount THEN max_tokens ELSE mid_tokens
         IN  IF diff <= SCALE_FACTOR \div THOUSAND THEN mid_tokens
             ELSE IF new_min = min_tokens /\ new_max = max_tokens THEN min_tokens
             ELSE bisect(n - 1, new_min, new_max, current_supply, weth_amount, params,
                         is_selling)

find_token_amount_for_weth(current_supply, weth_amount, params, is_selling) ==
    bisect(MaxIterations, 0,
           IF is_selling THEN current_supply
           ELSE saturating_sub(params.total_supply, current_supply),
           current_supply, weth_amount, params, is_selling)

\* ------------------------------------------------------------------- storage
VARIABLES
    owner,                \* address owner
    pool_state_manager,   \* address pool_state_manager
    initial_prices,       \* mapping(bytes32 => uint256)
    max_price_factors,
    steepness_values,
    midpoints,
    total_supplies,
    supplied,             \* history: the parameter block of the last successful initialize, per pool
    call,                 \* the public call being executed, with what it read and returned
    math                  \* an evaluation of the numeric core on its own

storage == <<owner, pool_state_manager, initial_prices, max_price_factors,
             steepness_values, midpoints, total_supplies>>

vars == <<owner, pool_state_manager, initial_prices, max_price_factors,
          steepness_values, midpoints, total_supplies, supplied, call, math>>

ZERO == 0
Addresses == 0..NumAddresses
Senders == 1..NumAddresses          \* msg::sender() is never the zero address
PoolIds == 1..NumPools

\* ------------------------------------------------------------------- results
Ok(a, b, s) == [ok |-> TRUE, err |-> "", out1 |-> a, out2 |-> b, new_supply |-> s]

Err(e) == [ok |-> FALSE, err |-> e, out1 |-> 0, out2 |-> 0, new_supply |-> 0]

\* --------------------------------------------------- extract_u256_from_bytes
\* a byte array is modelled word by word: data[i] is bytes 32(i-1) .. 32i-1
ByteLen(data) == 32 * Len(data)

extract_u256_from_bytes(data, offset) ==
    IF ByteLen(data) < offset + 32
    THEN [ok |-> FALSE, err |-> "Insufficient data length", value |-> 0]
    ELSE [ok |-> TRUE, err |-> "", value |-> data[(offset \div 32) + 1]]

\* ------------------------------------------------------------ get_curve_params
get_curve_params(pool_id) ==
    IF initial_prices[pool_id] = 0
    THEN [ok |-> FALSE, err |-> "Invalid Pool ID",
          params |-> CurveParameters(0, 0, 0, 0, 0)]
    ELSE [ok |-> TRUE, err |-> "",
          params |-> CurveParameters(initial_prices[pool_id], max_price_factors[pool_id],
                                     steepness_values[pool_id], midpoints[pool_id],
                                     total_supplies[pool_id])]

\* ----------------------------------------------------------- external replies
\* What a RawCall returns: it reverts (ok = FALSE) or yields return data (words).
Reverted == [ok |-> FALSE, words |-> << >>]

Returned(ws) == [ok |-> TRUE, words |-> ws]

\* The registry's getPoolInfo(bytes32) answer: the ABI encoding of
\* (address token, address creator, uint256 wethCollected, uint256 lastPrice,
\*  bool isTransitioned, bytes32 strategy), one 32-byte word per field.
EncodePoolInfo(token, creator, weth_collected, last_price, is_transitioned, strategy) ==
    Returned(<<token, creator, weth_collected, last_price,
               IF is_transitioned THEN 1 ELSE 0, strategy>>)

\* the last (least significant) byte of a big-endian 32-byte word
LastByte(word) == word % 256

call_total_supply(reply) ==
    IF ~reply.ok THEN [ok |-> FALSE, err |-> "ERC20 call failed", value |-> 0]
    ELSE IF ByteLen(reply.words) < 32
    THEN [ok |-> FALSE, err |-> "Invalid result length from ERC20 call", value |-> 0]
    ELSE [ok |-> TRUE, err |-> "", value |-> reply.words[1]]

call_balance_of(reply) ==
    IF ~reply.ok THEN [ok |-> FALSE, err |-> "ERC20 call failed", value |-> 0]
    ELSE IF ByteLen(reply.words) < 32
    THEN [ok |-> FALSE, err |-> "Invalid result length from ERC20 call", value |-> 0]
    ELSE [ok |-> TRUE, err |-> "", value |-> reply.words[1]]

NoPoolInfo(e) ==
    [ok |-> FALSE, err |-> e, token_address |-> 0, creator |-> 0, weth_collected |-> 0,
     last_price |-> 0, is_transitioned |-> FALSE, bonding_curve_strategy |-> 0]

\* result[127] is the last byte of the fourth word, result[128..160] the fifth word
get_pool_info(reply) ==
    IF ~reply.ok THEN NoPoolInfo("Pool state manager call failed")
    ELSE IF ByteLen(reply.words) < 192
    THEN NoPoolInfo("Invalid result length from pool state manager")
    ELSE [ok |-> TRUE, err |-> "",
          token_address |-> reply.words[1],
          creator |-> reply.words[2],
          weth_collected |-> reply.words[3],
          last_price |-> reply.words[4],
          is_transitioned |-> LastByte(reply.words[4]) # 0,
          bonding_curve_strategy |-> reply.words[5]]

\* circulating supply as every quote operation derives it; ok = FALSE carries the error
circulating_supply(total_reply, balance_reply) ==
    LET total == call_total_supply(total_reply)
        held  == call_balance_of(balance_reply)
    IN  IF ~total.ok THEN total
        ELSE IF ~held.ok THEN held
        ELSE [ok |-> TRUE, err |-> "", value |-> saturating_sub(total.value, held.value)]

\* ------------------------------------------------------------ public: quotes
\* Each takes the replies the external calls of the handler receive.  None reads
\* msg::sender(); the events they log are not part of the contract's state.
\* calculate_buy without its `weth_amount.is_zero()` check
calculate_buy_zero_unchecked(pool_id, weth_amount, registry, total_reply, balance_reply) ==
    LET info == get_pool_info(registry)
        cp   == get_curve_params(pool_id)
        circ == circulating_supply(total_reply, balance_reply)
    IN  IF ~info.ok THEN Err(info.err)
        ELSE IF info.is_transitioned THEN Err("Pool has transitioned")
        ELSE IF ~cp.ok THEN Err(cp.err)
        ELSE IF ~circ.ok THEN Err(circ.err)
        ELSE IF circ.value = 0
        THEN Ok(divide_fixed_point(weth_amount, cp.params.initial_price),
                cp.params.initial_price, 0)
        ELSE LET token_amount == find_token_amount_for_weth(circ.value, weth_amount,
                                                            cp.params, FALSE)
                 new_circulating_supply == wrapping_add(circ.value, token_amount)
             IN  Ok(token_amount,
                    calculate_sigmoid_price(new_circulating_supply, cp.params),
                    new_circulating_supply)

calculate_buy(pool_id, weth_amount, registry, total_reply, balance_reply) ==
    LET info == get_pool_info(registry)
        cp   == get_curve_params(pool_id)
        circ == circulating_supply(total_reply, balance_reply)
    IN  IF ~info.ok THEN Err(info.err)
        ELSE IF info.is_transitioned THEN Err("Pool has transitioned")
        ELSE IF weth_amount = 0 THEN Err("Invalid Amount")
        ELSE IF ~cp.ok THEN Err(cp.err)
        ELSE IF ~circ.ok THEN Err(circ.err)
        ELSE IF circ.value = 0
        THEN Ok(divide_fixed_point(weth_amount, cp.params.initial_price),
                cp.params.initial_price, 0)
        ELSE LET token_amount == find_token_amount_for_weth(circ.value, weth_amount,
                                                            cp.params, FALSE)
                 new_circulating_supply == wrapping_add(circ.value, token_amount)
             IN  Ok(token_amount,
                    calculate_sigmoid_price(new_circulating_supply, cp.params),
                    new_circulating_supply)

calculate_sell(pool_id, token_amount, registry, total_reply, balance_reply) ==
    LET info == get_pool_info(registry)
        cp   == get_curve_params(pool_id)
        circ == circulating_supply(total_reply, balance_reply)
    IN  IF ~info.ok THEN Err(info.err)
        ELSE IF info.is_transitioned THEN Err("Pool has transitioned")
        ELSE IF token_amount = 0 THEN Err("Invalid Amount")
        ELSE IF ~cp.ok THEN Err(cp.err)
        ELSE IF ~circ.ok THEN Err(circ.err)
        ELSE IF token_amount > circ.value THEN Err("Invalid Amount")
        ELSE LET weth_to_return == calculate_weth_for_token_amount(circ.value, token_amount,
                                                                   cp.params, TRUE)
                 new_circulating_supply == wrapping_sub(circ.value, token_amount)
             IN  IF weth_to_return > info.weth_collected THEN Err("Insufficient Liquidity")
                 ELSE Ok(weth_to_return,
                         calculate_sigmoid_price(new_circulating_supply, cp.params),
                         new_circulating_supply)

\* returns Result<U256>: the price is out1
get_current_price(pool_id, registry, total_reply, balance_reply) ==
    LET info == get_pool_info(registry)
        cp   == get_curve_params(pool_id)
        circ == circulating_supply(total_reply, balance_reply)
    IN  IF ~info.ok THEN Err(info.err)
        ELSE IF info.is_transitioned THEN Ok(info.last_price, 0, 0)
        ELSE IF ~cp.ok THEN Err(cp.err)
        ELSE IF ~circ.ok THEN Err(circ.err)
        ELSE IF circ.value = 0 THEN Ok(cp.params.initial_price, 0, 0)
        ELSE Ok(calculate_sigmoid_price(circ.value, cp.params), 0, circ.value)

calculate_weth_for_exact_tokens(pool_id, exact_token_amount, registry, total_reply, balance_reply) ==
    LET info == get_pool_info(registry)
        cp   == get_curve_params(pool_id)
        circ == circulating_supply(total_reply, balance_reply)
    IN  IF ~info.ok THEN Err(info.err)
        ELSE IF info.is_transitioned THEN Err("Pool has transitioned")
        ELSE IF exact_token_amount = 0 THEN Err("Invalid Amount")
        ELSE IF ~cp.ok THEN Err(cp.err)
        ELSE IF ~circ.ok THEN Err(circ.err)
        ELSE LET weth_needed == calculate_weth_for_token_amount(circ.value,
                                    exact_token_amount, cp.params, FALSE)
                 new_circulating_supply == wrapping_add(circ.value, exact_token_amount)
             IN  Ok(weth_needed,
                    calculate_sigmoid_price(new_circulating_supply, cp.params),
                    new_circulating_supply)

calculate_tokens_for_exact_weth(pool_id, exact_weth_amount, registry, total_reply, balance_reply) ==
    LET info == get_pool_info(registry)
        cp   == get_curve_params(pool_id)
        circ == circulating_supply(total_reply, balance_reply)
    IN  IF ~info.ok THEN Err(info.err)
        ELSE IF info.is_transitioned THEN Err("Pool has transitioned")
        ELSE IF exact_weth_amount = 0 THEN Err("Invalid Amount")
        ELSE IF ~cp.ok THEN Err(cp.err)
        ELSE IF ~circ.ok THEN Err(circ.err)
        ELSE LET tokens_needed == find_token_amount_for_weth(circ.value, exact_weth_amount,
                                                             cp.params, FALSE)
                 new_circulating_supply == wrapping_add(circ.value, tokens_needed)
             IN  Ok(tokens_needed,
                    calculate_sigmoid_price(new_circulating_supply, cp.params),
                    new_circulating_supply)

\* ------------------------------------------------------------- public: admin
only_owner(sender) ==
    IF sender # owner THEN Err("Ownable: caller is not the owner") ELSE Ok(0, 0, 0)

\* initialize validating total_supply only
initialize_result_supply_only(sender, params_bytes) ==
    IF sender # owner THEN Err("Not Pool State Manager")
    ELSE IF ByteLen(params_bytes) < 32 * ParamWords
    THEN Err("Invalid Parameters - not enough data")
    ELSE IF extract_u256_from_bytes(params_bytes, 128).value = 0
    THEN Err("Invalid Parameters - zero values not allowed")
    ELSE Ok(0, 0, 0)

\* the outcome of initialize, before anything is stored
initialize_result(sender, params_bytes) ==
    IF sender # owner THEN Err("Not Pool State Manager")
    ELSE IF ByteLen(params_bytes) < 32 * ParamWords
    THEN Err("Invalid Parameters - not enough data")
    ELSE IF extract_u256_from_bytes(params_bytes, 128).value = 0
            \/ extract_u256_from_bytes(params_bytes, 0).value = 0
    THEN Err("Invalid Parameters - zero values not allowed")
    ELSE Ok(0, 0, 0)

\* the supplied value stored as it is, zero or not
or_default_never(value, default) == value

\* "Use default values if not provided"
or_default(value, default) == IF value = 0 THEN default ELSE value

\* -------------------------------------------------------------------- inputs
\* parameter blocks handed to initialize, as 32-byte words
ParamBlocks ==
    { <<SCALE_FACTOR, 0, 0, 0, 10 * SCALE_FACTOR>>,
      <<2 * SCALE_FACTOR, 3 * SCALE_FACTOR, 2 * SCALE_FACTOR, SCALE_FACTOR \div 4,
        20 * SCALE_FACTOR>>,
      <<0, 0, 0, 0, 10 * SCALE_FACTOR>>,
      <<SCALE_FACTOR, 3 * SCALE_FACTOR, 2 * SCALE_FACTOR, SCALE_FACTOR \div 4, 0>>,
      <<SCALE_FACTOR, 0, 0, 0>> }

Circulating == 4 * SCALE_FACTOR

\* the last one pays for more tokens, at any initial price offered, than a pool issues
Amounts == {0, SCALE_FACTOR, Circulating, Circulating + 1, 30 * SCALE_FACTOR}

WethLevels == {0, MAX}

LastPrices == {256, 257}

RegistryReplies ==
    {Reverted, Returned(<<1, 1, 0, 0, 0>>)}
    \cup {EncodePoolInfo(1, 1, w, lp, t, 1) : w \in WethLevels, lp \in LastPrices,
                                              t \in BOOLEAN}

\* <<reply to totalSupply(), reply to balanceOf(pool_state_manager)>>
LedgerReplies ==
    { <<Returned(<<Circulating>>), Returned(<<0>>)>>,
      <<Returned(<<Circulating>>), Returned(<<Circulating>>)>>,
      <<Returned(<<0>>), Returned(<<Circulating>>)>>,
      <<Reverted, Returned(<<0>>)>>,
      <<Returned(<<Circulating>>), Returned(<< >>)>> }

\* ------------------------------------------------------------------- records
Request(op, sender, pool_id, addr, data, amount, registry, ledger, res) ==
    [op |-> op, sender |-> sender, pool_id |-> pool_id, addr |-> addr, data |-> data,
     amount |-> amount, registry |-> registry, total_reply |-> ledger[1],
     balance_reply |-> ledger[2], res |-> res]

NoLedger == <<Reverted, Reverted>>

NoCall == Request("none", 0, 0, 0, << >>, 0, Reverted, NoLedger, Ok(0, 0, 0))

NoMath ==
    [fn |-> "none", params |-> CurveParameters(0, 0, 0, 0, 0),
     a |-> 0, b |-> 0, r |-> 0, r2 |-> 0]

Idle == call.op = "none"

\* ---------------------------------------------------------------------- Init
Init ==
    /\ owner = ZERO
    /\ pool_state_manager = ZERO
    /\ initial_prices = [k \in PoolIds |-> 0]
    /\ max_price_factors = [k \in PoolIds |-> 0]
    /\ steepness_values = [k \in PoolIds |-> 0]
    /\ midpoints = [k \in PoolIds |-> 0]
    /\ total_supplies = [k \in PoolIds |-> 0]
    /\ supplied = [k \in PoolIds |-> << >>]
    /\ call = NoCall
    /\ math = NoMath

\* ------------------------------------------------------------------- actions
Constructor ==
    /\ Idle
    /\ \E sender \in Senders, psm \in Addresses :
          /\ owner' = sender
          /\ pool_state_manager' = psm
          /\ call' = Request("constructor", sender, 0, psm, << >>, 0, Reverted, NoLedger,
                             Ok(0, 0, 0))
    /\ UNCHANGED <<initial_prices, max_price_factors, steepness_values, midpoints,
                   total_supplies, supplied, math>>

Initialize ==
    /\ Idle
    /\ \E sender \in Senders, pool_id \in PoolIds, params_bytes \in ParamBlocks :
          LET res == initialize_result(sender, params_bytes)
          IN  /\ call' = Request("initialize", sender, pool_id, 0, params_bytes, 0,
                                 Reverted, NoLedger, res)
              /\ IF res.ok
                 THEN /\ initial_prices' =
                            [initial_prices EXCEPT ![pool_id] =
                                extract_u256_from_bytes(params_bytes, 0).value]
                      /\ max_price_factors' =
                            [max_price_factors EXCEPT ![pool_id] =
                                or_default(extract_u256_from_bytes(params_bytes, 32).value,
                                           DEFAULT_MAX_PRICE_FACTOR)]
                      /\ steepness_values' =
                            [steepness_values EXCEPT ![pool_id] =
                                or_default(extract_u256_from_bytes(params_bytes, 64).value,
                                           DEFAULT_STEEPNESS)]
                      /\ midpoints' =
                            [midpoints EXCEPT ![pool_id] =
                                or_default(extract_u256_from_bytes(params_bytes, 96).value,
                                           DEFAULT_MIDPOINT)]
                      /\ total_supplies' =
                            [total_supplies EXCEPT ![pool_id] =
                                extract_u256_from_bytes(params_bytes, 128).value]
                      /\ supplied' = [supplied EXCEPT ![pool_id] =
                                         SubSeq(params_bytes, 1, ParamWords)]
                 ELSE UNCHANGED <<initial_prices, max_price_factors, steepness_values,
                                  midpoints, total_supplies, supplied>>
    /\ UNCHANGED <<owner, pool_state_manager, math>>

SetPoolStateManager ==
    /\ Idle
    /\ \E sender \in Senders, new_pool_state_manager \in Addresses :
          LET res == only_owner(sender)
          IN  /\ call' = Request("set_pool_state_manager", sender, 0,
                                 new_pool_state_manager, << >>, 0, Reverted, NoLedger, res)
              /\ pool_state_manager' =
                    IF res.ok THEN new_pool_state_manager ELSE pool_state_manager
    /\ UNCHANGED <<owner, initial_prices, max_price_factors, steepness_values, midpoints,
                   total_supplies, supplied, math>>

transfer_ownership_result(sender, new_owner) ==
    IF ~only_owner(sender).ok THEN only_owner(sender)
    ELSE IF new_owner = ZERO THEN Err("New owner cannot be the zero address")
    ELSE Ok(0, 0, 0)

TransferOwnership ==
    /\ Idle
    /\ \E sender \in Senders, new_owner \in Addresses :
          LET res == transfer_ownership_result(sender, new_owner)
          IN  /\ call' = Request("transfer_ownership", sender, 0, new_owner, << >>, 0,
                                 Reverted, NoLedger, res)
              /\ owner' = IF res.ok THEN new_owner ELSE owner
    /\ UNCHANGED <<pool_state_manager, initial_prices, max_price_factors, steepness_values,
                   midpoints, total_supplies, supplied, math>>

CalculateBuy ==
    /\ Idle
    /\ \E pool_id \in PoolIds, amount \in Amounts,
          registry \in RegistryReplies, ledger \in LedgerReplies :
          call' = Request("calculate_buy", 0, pool_id, 0, << >>, amount, registry,
                          ledger,
                          calculate_buy(pool_id, amount, registry, ledger[1], ledger[2]))
    /\ UNCHANGED <<storage, supplied, math>>

CalculateSell ==
    /\ Idle
    /\ \E pool_id \in PoolIds, amount \in Amounts,
          registry \in RegistryReplies, ledger \in LedgerReplies :
          call' = Request("calculate_sell", 0, pool_id, 0, << >>, amount, registry,
                          ledger,
                          calculate_sell(pool_id, amount, registry, ledger[1], ledger[2]))
    /\ UNCHANGED <<storage, supplied, math>>

GetCurrentPrice ==
    /\ Idle
    /\ \E pool_id \in PoolIds,
          registry \in RegistryReplies, ledger \in LedgerReplies :
          call' = Request("get_current_price", 0, pool_id, 0, << >>, 0, registry,
                          ledger,
                          get_current_price(pool_id, registry, ledger[1], ledger[2]))
    /\ UNCHANGED <<storage, supplied, math>>

CalculateWethForExactTokens ==
    /\ Idle
    /\ \E pool_id \in PoolIds, amount \in Amounts,
          registry \in RegistryReplies, ledger \in LedgerReplies :
          call' = Request("calculate_weth_for_exact_tokens", 0, pool_id, 0, << >>,
                          amount, registry, ledger,
                          calculate_weth_for_exact_tokens(pool_id, amount, registry,
                                                          ledger[1], ledger[2]))
    /\ UNCHANGED <<storage, supplied, math>>

CalculateTokensForExactWeth ==
    /\ Idle
    /\ \E pool_id \in PoolIds, amount \in Amounts,
          registry \in RegistryReplies, ledger \in LedgerReplies :
          call' = Request("calculate_tokens_for_exact_weth", 0, pool_id, 0, << >>,
                          amount, registry, ledger,
                          calculate_tokens_for_exact_weth(pool_id, amount, registry,
                                                          ledger[1], ledger[2]))
    /\ UNCHANGED <<storage, supplied, math>>

\* the transaction ends and its result is handed to the caller
Return ==
    /\ ~Idle
    /\ call' = NoCall
    /\ UNCHANGED <<storage, supplied, math>>

Next ==
    \/ Constructor
    \/ Initialize
    \/ SetPoolStateManager
    \/ TransferOwnership
    \/ CalculateBuy
    \/ CalculateSell
    \/ GetCurrentPrice
    \/ CalculateWethForExactTokens
    \/ CalculateTokensForExactWeth
    \/ Return

Spec == Init /\ [][Next]_vars

\* ------------------------------------------------- the numeric core on its own
\* records accepted by initialize: the reference vector (1.0, 10.0, 10.0, 0.5) over a
\* supply of 10.00, the same curve over a supply large enough for supply * SCALE to
\* pass MAX / SCALE, and a record with every field supplied
FallbackSupply == MAX \div (SCALE_FACTOR * SCALE_FACTOR)

MathParams ==
    { CurveParameters(SCALE_FACTOR, DEFAULT_MAX_PRICE_FACTOR, DEFAULT_STEEPNESS,
                      DEFAULT_MIDPOINT, 10 * SCALE_FACTOR),
      CurveParameters(SCALE_FACTOR, DEFAULT_MAX_PRICE_FACTOR, DEFAULT_STEEPNESS,
                      DEFAULT_MIDPOINT, (FallbackSupply + 1) * SCALE_FACTOR + 1),
      CurveParameters(2 * SCALE_FACTOR, 3 * SCALE_FACTOR, 2 * SCALE_FACTOR,
                      SCALE_FACTOR \div 4, 20 * SCALE_FACTOR) }

MathSupplies(params) ==
    { s \in (0..12) \cup {FallbackSupply, FallbackSupply + 1}
            \cup {params.total_supply \div 4, params.total_supply \div 2,
                  params.total_supply} : s <= params.total_supply }

DivOperands ==
    {0, 1, 2, 3, SCALE_FACTOR, MAX \div SCALE_FACTOR, (MAX \div SCALE_FACTOR) + 1,
     MAX \div 2, MAX - 1, MAX}

\* the price at two supplies s1 = a < s2 = b of one curve
EvalPrice ==
    /\ math.fn = "none"
    /\ \E params \in MathParams :
          \E s1 \in MathSupplies(params), s2 \in MathSupplies(params) :
             /\ s1 < s2
             /\ math' = [fn |-> "calculate_sigmoid_price", params |-> params,
                         a |-> s1, b |-> s2,
                         r |-> calculate_sigmoid_price(s1, params),
                         r2 |-> calculate_sigmoid_price(s2, params)]
    /\ UNCHANGED <<storage, supplied, call>>

EvalDivide ==
    /\ math.fn = "none"
    /\ \E a \in DivOperands, b \in DivOperands :
          math' = [fn |-> "divide_fixed_point", params |-> CurveParameters(0, 0, 0, 0, 0),
                   a |-> a, b |-> b, r |-> divide_fixed_point(a, b), r2 |-> 0]
    /\ UNCHANGED <<storage, supplied, call>>

MulOperands ==
    {0, 1, 2, 3, SCALE_FACTOR, SCALE_FACTOR + 1, MAX \div SCALE_FACTOR,
     (MAX \div SCALE_FACTOR) + 1, MAX \div 3, MAX \div 2, (MAX \div 2) + 1, MAX - 1, MAX}

EvalMultiply ==
    /\ math.fn = "none"
    /\ \E a \in MulOperands, b \in MulOperands :
          math' = [fn |-> "multiply_fixed_point", params |-> CurveParameters(0, 0, 0, 0, 0),
                   a |-> a, b |-> b, r |-> multiply_fixed_point(a, b), r2 |-> 0]
    /\ UNCHANGED <<storage, supplied, call>>

\* the records of MathParams and one whose prices are below 1.0: initial price 0.25
\* rising to 0.5
SolverParams ==
    MathParams \cup {CurveParameters(SCALE_FACTOR \div 4, 2 * SCALE_FACTOR,
                                      DEFAULT_STEEPNESS, DEFAULT_MIDPOINT,
                                      10 * SCALE_FACTOR)}

SolverSupplies == 0..12

\* cost of `amount` tokens bought at supply a = current_supply, then the amount the
\* solver finds for that cost: r is the cost, r2 the amount found
EvalRoundTrip ==
    /\ math.fn = "none"
    /\ \E params \in SolverParams, current_supply \in SolverSupplies,
          amount \in SolverSupplies :
          /\ current_supply + amount <= params.total_supply
          /\ LET weth == calculate_weth_for_token_amount(current_supply, amount, params,
                                                         FALSE)
             IN  math' = [fn |-> "round_trip", params |-> params,
                          a |-> current_supply, b |-> amount, r |-> weth,
                          r2 |-> find_token_amount_for_weth(current_supply, weth, params,
                                                            FALSE)]
    /\ UNCHANGED <<storage, supplied, call>>

\* ---- find_token_amount_for_weth, one loop iteration per step
\* the bracket's upper end as if nothing had been issued yet
initial_max_tokens_unreduced(current_supply, params, is_selling) ==
    IF is_selling THEN current_supply ELSE params.total_supply

\* `max_tokens` before the loop
initial_max_tokens(current_supply, params, is_selling) ==
    IF is_selling THEN current_supply
    ELSE saturating_sub(params.total_supply, current_supply)

tolerance == SCALE_FACTOR \div THOUSAND

abs_diff(weth_needed, weth_amount) ==
    IF weth_needed >= weth_amount THEN saturating_sub(weth_needed, weth_amount)
    ELSE saturating_sub(weth_amount, weth_needed)

SolverCurrent(params) == {0, 1, 5, 12, params.total_supply, params.total_supply + 1}

SolverTargets == {0, 1, 7, SCALE_FACTOR, 10 * SCALE_FACTOR, MAX}

InLoop == math.fn = "find_token_amount_for_weth" /\ math.pc = "loop"

\* entry: a = current_supply, b = weth_amount; r is the value returned once pc = "done"
SolveStart ==
    /\ math.fn = "none"
    /\ \E params \in SolverParams, is_selling \in BOOLEAN, weth_amount \in SolverTargets :
          \E current_supply \in SolverCurrent(params) :
             math' = [fn |-> "find_token_amount_for_weth", params |-> params,
                      a |-> current_supply, b |-> weth_amount, r |-> 0, r2 |-> 0,
                      is_selling |-> is_selling, min_tokens |-> 0,
                      max_tokens |-> initial_max_tokens(current_supply, params, is_selling),
                      mid_tokens |-> 0, iterations |-> 0, evaluations |-> 0,
                      pc |-> "loop", exit |-> ""]
    /\ UNCHANGED <<storage, supplied, call>>

\* one pass through the body of `for _ in 0..100`
SolveIterate ==
    /\ InLoop
    /\ math.iterations < MaxIterations
    /\ IF math.max_tokens = math.min_tokens
       THEN math' = [math EXCEPT !.pc = "done", !.exit = "collapsed",
                                 !.r = math.min_tokens]
       ELSE LET mid_tokens  == saturating_add(math.min_tokens,
                                   saturating_sub(math.max_tokens, math.min_tokens)
                                       \div TWO)
                weth_needed == calculate_weth_for_token_amount(math.a, mid_tokens,
                                   math.params, math.is_selling)
            IN  IF abs_diff(weth_needed, math.b) <= tolerance
                THEN math' = [math EXCEPT !.pc = "done", !.exit = "converged",
                                          !.mid_tokens = mid_tokens,
                                          !.evaluations = @ + 1,
                                          !.r = mid_tokens]
                ELSE math' = [math EXCEPT
                                 !.mid_tokens = mid_tokens,
                                 !.evaluations = @ + 1,
                                 !.iterations = @ + 1,
                                 !.min_tokens = IF weth_needed < math.b THEN mid_tokens
                                                ELSE @,
                                 !.max_tokens = IF weth_needed < math.b THEN @
                                                ELSE mid_tokens]
    /\ UNCHANGED <<storage, supplied, call>>

\* the loop ran out: "Return best approximation"
SolveExhausted ==
    /\ InLoop
    /\ math.iterations = MaxIterations
    /\ math' = [math EXCEPT !.pc = "done", !.exit = "exhausted", !.r = math.min_tokens]
    /\ UNCHANGED <<storage, supplied, call>>

\* the evaluation is over; the next one starts from new arguments
MathReturn ==
    /\ math.fn # "none"
    /\ ~InLoop
    /\ math' = NoMath
    /\ UNCHANGED <<storage, supplied, call>>

MathNext ==
    \/ EvalPrice
    \/ EvalDivide
    \/ EvalMultiply
    \/ EvalRoundTrip
    \/ SolveStart
    \/ SolveIterate
    \/ SolveExhausted
    \/ MathReturn

MathSpec == Init /\ [][MathNext]_vars

\* =================================================================== claims
QuoteOps ==
    {"calculate_buy", "calculate_sell", "calculate_weth_for_exact_tokens",
     "calculate_tokens_for_exact_weth", "get_current_price"}

\* the registry answered with a full pool-info record
RegistryAnswered(reply) == reply.ok /\ Len(reply.words) >= 6

\* the transitioned flag of that record, as the registry encoded it
RegistryFlag(reply) == reply.words[5] # 0

StoredRecord(k) ==
    <<initial_prices[k], max_price_factors[k], steepness_values[k], midpoints[k],
      total_supplies[k]>>

Initialized(k) == supplied[k] # << >>

\* C1: for one parameter record and supplies s1 < s2 within [0, total_supply], the
\* price at s1 is at most the price at s2.
C1_PriceMonotone ==
    math.fn = "calculate_sigmoid_price" => math.r <= math.r2

\* C2: when supply is exactly the midpoint fraction of total_supply, the percentage
\* sold equals the midpoint and the price is initial_price + price_range / 2.
C2_MidpointValue ==
    (/\ math.fn = "calculate_sigmoid_price"
     /\ math.b * SCALE_FACTOR = math.params.midpoint * math.params.total_supply)
    => /\ percentage_sold(math.b, math.params) = math.params.midpoint
       /\ math.r2 = math.params.initial_price + price_range(math.params) \div 2

\* C3: once initialize has succeeded for a pool, no later step changes any of the
\* five stored parameters of that pool.
C3_ParamsImmutable ==
    [][\A k \in PoolIds :
          Initialized(k) =>
             <<initial_prices'[k], max_price_factors'[k], steepness_values'[k],
               midpoints'[k], total_supplies'[k]>> = StoredRecord(k)]_vars

\* C4: when the registry's pool info has the transitioned flag set, every curve
\* operation is refused with "Pool has transitioned", whatever the other fields are.
C4_TransitionedRefused ==
    (/\ call.op \in QuoteOps
     /\ RegistryAnswered(call.registry)
     /\ RegistryFlag(call.registry))
    => /\ ~call.res.ok
       /\ call.res.err = "Pool has transitioned"

\* C5 as stated: calculate_buy with weth_amount = 0 always fails with "Invalid
\* Amount", for every pool state the registry reports (transitioned or not).
C5_ZeroBuyInvalidAmount ==
    (/\ call.op = "calculate_buy"
     /\ call.amount = 0
     /\ RegistryAnswered(call.registry))
    => /\ ~call.res.ok
       /\ call.res.err = "Invalid Amount"

\* the pool was read as transitioned: byte 127 of the registry's answer is non-zero
ReadAsTransitioned(reply) == reply.words[4] % 256 # 0

\* C5 amended: calculate_buy with weth_amount = 0 never returns a quote; its error
\* is "Invalid Amount" exactly when the pool-info call answered in full and the pool
\* was not read as transitioned, and otherwise the pool-info error or "Pool has
\* transitioned", which are checked first.
C5_ZeroBuyRefused ==
    (call.op = "calculate_buy" /\ call.amount = 0)
    => /\ ~call.res.ok
       /\ call.res.out1 = 0
       /\ IF ~call.registry.ok
          THEN call.res.err = "Pool state manager call failed"
          ELSE IF ~RegistryAnswered(call.registry)
          THEN call.res.err = "Invalid result length from pool state manager"
          ELSE IF ReadAsTransitioned(call.registry)
          THEN call.res.err = "Pool has transitioned"
          ELSE call.res.err = "Invalid Amount"

C5_Witness ==
    /\ call.op = "calculate_buy"
    /\ call.amount = 0
    /\ Initialized(call.pool_id)
    /\ RegistryAnswered(call.registry)
    /\ ~ReadAsTransitioned(call.registry)
    /\ call.res.err = "Invalid Amount"

\* C6: an initialize call whose block holds a zero initial_price or total_supply
\* stores nothing: every mapping, owner and pool_state_manager stay as they were, the
\* call fails, and once the caller check has let it decode the block the error is
\* "Invalid Parameters - zero values not allowed".
C6_InvalidCreationRejected ==
    [][(/\ call'.op = "initialize"
        /\ Len(call'.data) >= 5
        /\ (call'.data[1] = 0 \/ call'.data[5] = 0))
       => /\ storage' = storage
          /\ supplied' = supplied
          /\ ~call'.res.ok
          /\ (call'.sender = owner
                => call'.res.err = "Invalid Parameters - zero values not allowed")]_vars

C6_Witness ==
    /\ call.op = "initialize"
    /\ call.sender = owner
    /\ Len(call.data) = 5
    /\ call.data[1] = 0
    /\ call.res.err = "Invalid Parameters - zero values not allowed"
    /\ Initialized(call.pool_id)
    /\ \E k \in PoolIds : ~Initialized(k)

\* C7: get_curve_params fails with "Invalid Pool ID" exactly for the pools no
\* initialize has succeeded on; for the others it returns initial_price and
\* total_supply as supplied, and each of max_price_factor, steepness, midpoint as
\* supplied when non-zero and as 10.0, 10.0, 0.5 otherwise; all five are non-zero.
C7_RecordMirrorsCreation ==
    \A k \in PoolIds :
       LET got == get_curve_params(k)
           blk == supplied[k]
       IN  /\ got.ok <=> Initialized(k)
           /\ ~got.ok => got.err = "Invalid Pool ID"
           /\ got.ok =>
                /\ got.params.initial_price = blk[1]
                /\ got.params.total_supply = blk[5]
                /\ got.params.max_price_factor =
                      (IF blk[2] # 0 THEN blk[2] ELSE 10 * SCALE_FACTOR)
                /\ got.params.steepness =
                      (IF blk[3] # 0 THEN blk[3] ELSE 10 * SCALE_FACTOR)
                /\ got.params.midpoint =
                      (IF blk[4] # 0 THEN blk[4] ELSE SCALE_FACTOR \div 2)
                /\ got.params.initial_price # 0
                /\ got.params.max_price_factor # 0
                /\ got.params.steepness # 0
                /\ got.params.midpoint # 0
                /\ got.params.total_supply # 0

C7_Witness ==
    \E k \in PoolIds, j \in PoolIds :
       /\ Initialized(k)
       /\ supplied[k][2] = 0
       /\ get_curve_params(k).params.max_price_factor = 10 * SCALE_FACTOR
       /\ Initialized(j)
       /\ supplied[j][2] # 0
       /\ get_curve_params(j).params.max_price_factor = supplied[j][2]

\* C8: on an initialized pool the registry reports as not transitioned,
\* calculate_sell fails with "Invalid Amount" when token_amount is zero or above the
\* circulating supply, with "Insufficient Liquidity" when the payout is above the
\* collected amount, and a successful call has 0 < token_amount <= circulating
\* supply and payout <= collected amount.
C8_SellGuards ==
    LET circ == circulating_supply(call.total_reply, call.balance_reply)
        weth == call.registry.words[3]
        cp   == get_curve_params(call.pool_id).params
    IN  (/\ call.op = "calculate_sell"
         /\ RegistryAnswered(call.registry)
         /\ ~RegistryFlag(call.registry)
         /\ Initialized(call.pool_id)
         /\ circ.ok)
        => /\ (call.amount = 0 \/ call.amount > circ.value)
                => (~call.res.ok /\ call.res.err = "Invalid Amount")
           /\ (/\ call.amount # 0
               /\ call.amount <= circ.value
               /\ calculate_weth_for_token_amount(circ.value, call.amount, cp, TRUE) > weth)
                => (~call.res.ok /\ call.res.err = "Insufficient Liquidity")
           /\ call.res.ok
                => /\ 0 < call.amount
                   /\ call.amount <= circ.value
                   /\ call.res.out1 <= weth

\* C9: the price at supply 0 is initial_price for every parameter record, and a
\* successful calculate_sell of exactly the circulating supply leaves supply 0 and
\* returns initial_price as the resulting price.
C9_SellToZero ==
    /\ \A p \in MathParams \cup {get_curve_params(k).params : k \in PoolIds} :
          calculate_sigmoid_price(0, p) = p.initial_price
    /\ (/\ call.op = "calculate_sell"
        /\ call.res.ok
        /\ call.amount = circulating_supply(call.total_reply, call.balance_reply).value)
       => /\ call.res.new_supply = 0
          /\ call.res.out2 = initial_prices[call.pool_id]

C9_Witness ==
    /\ call.op = "calculate_sell"
    /\ call.res.ok
    /\ call.amount > 0
    /\ call.amount = circulating_supply(call.total_reply, call.balance_reply).value
    /\ call.res.out1 > 0
    /\ call.res.out2 = initial_prices[call.pool_id]

\* C10: divide_fixed_point returns 0 when b = 0, floor(a * SCALE / b) when a * SCALE
\* is representable, and otherwise floor(a / b) * SCALE, a product that itself never
\* exceeds MAX, so that the value returned is the value of the formula.
C10_DivideNeverWraps ==
    math.fn = "divide_fixed_point"
    => IF math.b = 0 THEN math.r = 0
       ELSE IF math.a <= MAX \div SCALE_FACTOR
       THEN math.r = (math.a * SCALE_FACTOR) \div math.b
       ELSE /\ math.a \div math.b <= MAX \div SCALE_FACTOR
            /\ math.r = (math.a \div math.b) * SCALE_FACTOR

\* min(a * b, MAX + 1), computed by doubling so that no intermediate passes 2 * (MAX + 1)
RECURSIVE product_capped(_, _)
product_capped(a, b) ==
    IF b = 0 THEN 0
    ELSE LET twice == IF 2 * a > MAX + 1 THEN MAX + 1 ELSE 2 * a
             rest  == product_capped(twice, b \div 2) + (IF b % 2 = 1 THEN a ELSE 0)
         IN  IF rest > MAX + 1 THEN MAX + 1 ELSE rest

\* C11: multiply_fixed_point returns 0 when an operand is 0, MAX whenever the exact
\* product a * b exceeds MAX, and floor(a * b / SCALE) otherwise; it never returns
\* the quotient of a wrapped product.
C11_MultiplySaturates ==
    math.fn = "multiply_fixed_point"
    => IF math.a = 0 \/ math.b = 0 THEN math.r = 0
       ELSE IF product_capped(math.a, math.b) > MAX THEN math.r = MAX
       ELSE math.r = (math.a * math.b) \div SCALE_FACTOR

\* scaled_mul(MAX, 2) is MAX
C11_Witness ==
    /\ math.fn = "multiply_fixed_point"
    /\ math.a = MAX
    /\ math.b = 2
    /\ product_capped(math.a, math.b) > MAX
    /\ math.r = MAX

\* C12: for a current_supply and an amount with current_supply + amount <=
\* total_supply, the amount the solver finds for the buying cost of `amount` differs
\* from `amount` by at most SCALE / 1000.
C12_RoundTrip ==
    (/\ math.fn = "round_trip"
     /\ math.a + math.b <= math.params.total_supply)
    => /\ math.r2 <= math.b + SCALE_FACTOR \div THOUSAND
       /\ math.b <= math.r2 + SCALE_FACTOR \div THOUSAND

\* the loop taken step by step returns what find_token_amount_for_weth returns
SolverAgrees ==
    (math.fn = "find_token_amount_for_weth" /\ math.pc = "done")
    => math.r = find_token_amount_for_weth(math.a, math.b, math.params, math.is_selling)

\* the bound B of the bracket: current_supply when selling, total_supply -
\* current_supply (0 when that is negative) when buying
BracketBound ==
    IF math.is_selling THEN math.a
    ELSE IF math.params.total_supply >= math.a THEN math.params.total_supply - math.a
    ELSE 0

\* C13: find_token_amount_for_weth finishes after at most 100 cost evaluations;
\* throughout the loop 0 <= min_tokens <= mid_tokens <= max_tokens <= B; the value
\* returned is a mid_tokens whose cost is within SCALE / 1000 of the target, or
\* min_tokens on bracket collapse or after the 100th iteration, and lies in [0, B].
C13_BisectionInBracket ==
    [][math'.fn = "find_token_amount_for_weth"
       => /\ 0 <= math'.min_tokens
          /\ math'.min_tokens <= math'.max_tokens
          /\ math'.max_tokens <= BracketBound'
          /\ math'.evaluations <= MaxIterations
          /\ math'.iterations <= MaxIterations
          /\ (math.fn = "find_token_amount_for_weth" /\ math'.evaluations # math.evaluations)
                => /\ math'.evaluations = math.evaluations + 1
                   /\ math.min_tokens <= math'.mid_tokens
                   /\ math'.mid_tokens <= math.max_tokens
          /\ (InLoop /\ math.iterations = MaxIterations) => math'.pc = "done"
          /\ math'.pc = "done"
                => /\ 0 <= math'.r
                   /\ math'.r <= BracketBound'
                   /\ \/ /\ math'.r = math'.mid_tokens
                         /\ math'.evaluations > 0
                         /\ abs_diff(calculate_weth_for_token_amount(
                                         math'.a, math'.r, math'.params, math'.is_selling),
                                     math'.b) <= SCALE_FACTOR \div THOUSAND
                      \/ /\ math'.r = math.min_tokens
                         /\ math.min_tokens = math.max_tokens
                      \/ /\ math'.r = math.min_tokens
                         /\ math.iterations = MaxIterations
                         /\ math.evaluations = MaxIterations]_vars

\* all 100 iterations were used and the best approximation, inside the bracket, returned
C13_Witness ==
    /\ math.fn = "find_token_amount_for_weth"
    /\ math.pc = "done"
    /\ math.exit = "exhausted"
    /\ math.evaluations = MaxIterations
    /\ ~math.is_selling
    /\ 0 < math.r
    /\ math.r < BracketBound

\* C14: a successful calculate_buy on an initialized pool the registry reports as not
\* transitioned returns at most total_supply minus the circulating supply, also when
\* the circulating supply is zero, and returns the token amount that
\* calculate_tokens_for_exact_weth returns for the same pool state and amount.
C14_BuyWithinRemaining ==
    LET circ  == circulating_supply(call.total_reply, call.balance_reply)
        other == calculate_tokens_for_exact_weth(call.pool_id, call.amount, call.registry,
                                                 call.total_reply, call.balance_reply)
    IN  (/\ call.op = "calculate_buy"
         /\ call.res.ok
         /\ Initialized(call.pool_id)
         /\ RegistryAnswered(call.registry)
         /\ ~RegistryFlag(call.registry))
        => /\ call.res.out1 <= saturating_sub(total_supplies[call.pool_id], circ.value)
           /\ other.ok
           /\ call.res.out1 = other.out1

\* C15: an initialize call succeeds only when its caller is the address stored as
\* pool_state_manager; a call from any other address fails with "Not Pool State
\* Manager" and changes no stored state.
C15_OnlyManagerInitializes ==
    [][call'.op = "initialize"
       => /\ call'.res.ok => call'.sender = pool_state_manager
          /\ call'.sender # pool_state_manager
                => /\ ~call'.res.ok
                   /\ call'.res.err = "Not Pool State Manager"
                   /\ storage' = storage
                   /\ supplied' = supplied]_vars

\* C16: once the constructor has run (the owner is set), a call made by an address
\* that is not the current owner changes neither owner nor pool_state_manager, and
\* owner changes only through transfer_ownership called by the current owner with a
\* non-zero new owner.
C16_OwnerControlled ==
    [][(owner # ZERO /\ call'.op # "none")
       => /\ call'.sender # owner
                => /\ owner' = owner
                   /\ pool_state_manager' = pool_state_manager
          /\ owner' # owner
                => /\ call'.op = "transfer_ownership"
                   /\ call'.sender = owner
                   /\ call'.addr # ZERO
                   /\ owner' = call'.addr]_vars

====
